---- MODULE Spec2Model ----
(***************************************************************************)
(* Model of replicante_util_upkeep::Upkeep (src/util/upkeep/src/lib.rs):   *)
(* the shutdown coordinator that waits for a signal or a thread exit,      *)
(* requests every registered thread to stop, runs the on_shutdown          *)
(* callbacks and joins the threads.                                        *)
(*                                                                         *)
(* The coordinator runs on one thread (the host): its position is pc.      *)
(* Worker threads and OS signal handlers run concurrently with it.         *)
(* Rust vectors are 0-based, TLA+ sequences 1-based: self.threads[n - 1]   *)
(* of the source is threads[n] here.                                       *)
(*                                                                         *)
(* What the code relies on from its libraries:                             *)
(*  - humthreads: join() takes the join handle; a second join() of the     *)
(*    same handle fails with JoinedAlready, a join of a thread that        *)
(*    panicked fails with Join; request_shutdown() sets a flag the thread  *)
(*    polls; the completion source added by select_add() becomes ready     *)
(*    when the thread function has ended, by return or by panic.           *)
(*  - crossbeam_channel: Select::ready() blocks until an operation of the  *)
(*    set would not block and returns the index of one such operation,     *)
(*    any of them when several are ready; it takes no message off the      *)
(*    channel; a receive on a channel all of whose senders were dropped    *)
(*    does not block either.                                               *)
(*  - signal_hook: register() installs the closure or returns an error;    *)
(*    unregister() removes it.                                             *)
(***************************************************************************)
EXTENDS Integers, Sequences, FiniteSets, TLC

\* Bounds of the model.
MaxWorkers == 2      \* threads spawned and registered
MaxCallbacks == 2    \* on_shutdown() calls
MaxKeepalive == 2    \* keepalive() calls
MaxShutdown == 1     \* direct shutdown() calls (as the unit tests make)
MaxSignals == 2      \* signal handler invocations

Workers == 1..MaxWorkers
CallbackIds == 1..MaxCallbacks
Invocations == 1..MaxSignals

\* The signals register_signal() installs handlers for, in order.
signals == <<"SIGINT", "SIGTERM">>

\* Results of humthreads' join as keepalive()/join_threads() match on them.
JoinOk == "Ok"
JoinPanic == "Join"
JoinedAlready == "JoinedAlready"

VARIABLES
    \* fields of Upkeep
    callbacks,           \* Vec<Box<dyn Fn()>>: callback ids in registration order
    registered_signals,  \* Vec<SigId>
    signal_flag,         \* Arc<AtomicBool>
    signal_receiver,     \* number of notifications queued on the channel
    signal_sender,       \* Option<Sender<()>>: TRUE when Some
    threads,             \* Vec<ThreadMeta>: [handle, required]
    \* environment of the coordinator
    senders,             \* live Sender clones of the signal channel
    installed,           \* signals with a handler installed in the OS
    hpc,                 \* position of each signal handler invocation
    wstate,              \* each worker thread: unspawned/running/exited/panicked
    shutdown_flag,       \* each worker's request_shutdown() flag
    joined,              \* each worker: join handle already taken
    process,             \* "running", or "exit1" after process::exit(1)
    alive,               \* FALSE once the Upkeep was dropped
    \* the host thread
    pc,                  \* the host thread: "host" between calls, "wait",
                         \* "shutdown", "join" inside keepalive(), "returned"
                         \* when keepalive() has just returned, "shutdown_done"
                         \* when a direct shutdown() has just returned
    clean_exit,          \* keepalive()'s local
    sweep_clean,         \* join_threads()' local clean_exit
    result,              \* what the last completed keepalive() returned
    signal_result,       \* what the last register_signal() returned
    \* history
    log,                 \* events of the current shutdown()/keepalive() call
    cb_count,            \* invocations of each callback, in total
    panic_log,           \* "Thread paniced" reports for each worker, in total
    trigger,             \* why the current keepalive() left its wait loop
    at_call,             \* self.threads when keepalive() was called
    prev,                \* what the keepalive() call before the current one
                         \* returned: "none", "clean" or "unclean"
    kcalls,              \* keepalive() calls so far
    scalls,              \* direct shutdown() calls so far
    shutdowns            \* executions of shutdown(), direct or by keepalive()

upkeep == <<callbacks, registered_signals, signal_flag, signal_receiver,
            signal_sender, threads>>
env == <<senders, installed, hpc, wstate, shutdown_flag, joined, process, alive>>
host == <<pc, clean_exit, sweep_clean, result, signal_result>>
history == <<log, cb_count, panic_log, trigger, at_call, prev, kcalls, scalls,
             shutdowns>>
vars == <<upkeep, env, host, history>>

Range(s) == {s[i] : i \in DOMAIN s}
Ended == {"exited", "panicked"}
Handles(ths) == {ths[i].handle : i \in DOMAIN ths}

\* Event of the history log: a stop request to a worker, a callback run, a
\* join in the wait loop or in the final sweep with the result of the join.
NoResult == "-"
Ev(op, id, res) == [op |-> op, id |-> id, res |-> res]

----------------------------------------------------------------------------
\* Upkeep::new
Init ==
    /\ callbacks = <<>>
    /\ registered_signals = <<>>
    /\ signal_flag = FALSE
    /\ signal_receiver = 0
    /\ signal_sender = TRUE
    /\ threads = <<>>
    /\ senders = 1
    /\ installed = {}
    /\ hpc = [h \in Invocations |-> "idle"]
    /\ wstate = [w \in Workers |-> "unspawned"]
    /\ shutdown_flag = [w \in Workers |-> FALSE]
    /\ joined = [w \in Workers |-> FALSE]
    /\ process = "running"
    /\ alive = TRUE
    /\ pc = "host"
    /\ clean_exit = TRUE
    /\ sweep_clean = TRUE
    /\ result = TRUE
    /\ signal_result = "none"
    /\ log = <<>>
    /\ cb_count = [c \in CallbackIds |-> 0]
    /\ panic_log = [w \in Workers |-> 0]
    /\ trigger = "none"
    /\ at_call = <<>>
    /\ prev = "none"
    /\ kcalls = 0
    /\ scalls = 0
    /\ shutdowns = 0

\* The process runs and the Upkeep was not dropped yet.
Running == process = "running" /\ alive

\* The host thread is between two calls on a live Upkeep.
Host == Running /\ pc \in {"host", "returned", "shutdown_done"}

\* The host program registers its callbacks, threads and signal handlers
\* first and calls shutdown() or keepalive() afterwards, as the documentation
\* example, the unit tests and the tracing backends do.
Setup == Host /\ kcalls = 0 /\ scalls = 0

----------------------------------------------------------------------------
\* Registration operations.

\* Upkeep::on_shutdown: push the callback at the end of callbacks.
\* A callback is named by the order of its registration.
on_shutdown ==
    /\ Setup
    /\ Len(callbacks) < MaxCallbacks
    /\ callbacks' = Append(callbacks, Len(callbacks) + 1)
    /\ UNCHANGED <<registered_signals, signal_flag, signal_receiver, signal_sender,
                   threads, env, host, history>>

\* The worker a registration hands over: the next thread the host spawned.
NextWorker == CHOOSE w \in Workers : wstate[w] = "unspawned" /\
                  \A v \in Workers : wstate[v] = "unspawned" => w <= v

\* ThreadMeta pushed by register_thread / register_thread_optional.
ThreadMeta(handle, required) == [handle |-> handle, required |-> required]

\* Variant of register_thread: the entry is put at the front of the registry.
register_thread_front ==
    /\ Setup
    /\ \E w \in Workers : wstate[w] = "unspawned"
    /\ threads' = <<ThreadMeta(NextWorker, TRUE)>> \o threads
    /\ wstate' = [wstate EXCEPT ![NextWorker] = "running"]
    /\ UNCHANGED <<callbacks, registered_signals, signal_flag, signal_receiver,
                   signal_sender, senders, installed, hpc, shutdown_flag, joined,
                   process, alive, host, history>>

\* Builder::spawn followed by Upkeep::register_thread: required is true.
register_thread ==
    /\ Setup
    /\ \E w \in Workers : wstate[w] = "unspawned"
    /\ threads' = Append(threads, ThreadMeta(NextWorker, TRUE))
    /\ wstate' = [wstate EXCEPT ![NextWorker] = "running"]
    /\ UNCHANGED <<callbacks, registered_signals, signal_flag, signal_receiver,
                   signal_sender, senders, installed, hpc, shutdown_flag, joined,
                   process, alive, host, history>>

\* Builder::spawn followed by Upkeep::register_thread_optional: required is false.
register_thread_optional ==
    /\ Setup
    /\ \E w \in Workers : wstate[w] = "unspawned"
    /\ threads' = Append(threads, ThreadMeta(NextWorker, FALSE))
    /\ wstate' = [wstate EXCEPT ![NextWorker] = "running"]
    /\ UNCHANGED <<callbacks, registered_signals, signal_flag, signal_receiver,
                   signal_sender, senders, installed, hpc, shutdown_flag, joined,
                   process, alive, host, history>>

\* Thread::join borrows the handle, so the host can join a thread that has
\* returned and hand it over afterwards, to register_thread (required) or to
\* register_thread_optional: the registry then holds a joined handle.
register_joined ==
    /\ Setup
    /\ \E w \in Workers : wstate[w] = "unspawned"
    /\ \E required \in BOOLEAN :
          threads' = Append(threads, ThreadMeta(NextWorker, required))
    /\ wstate' = [wstate EXCEPT ![NextWorker] = "exited"]
    /\ joined' = [joined EXCEPT ![NextWorker] = TRUE]
    /\ UNCHANGED <<callbacks, registered_signals, signal_flag, signal_receiver,
                   signal_sender, senders, installed, hpc, shutdown_flag,
                   process, alive, host, history>>

\* The handlers the loop of register_signal installs when the OS refuses the
\* signals in refused: the loop returns at the first refusal (the ? operator).
RECURSIVE installed_prefix(_, _)
installed_prefix(sigs, refused) ==
    IF sigs = <<>> \/ Head(sigs) \in refused THEN <<>>
    ELSE <<Head(sigs)>> \o installed_prefix(Tail(sigs), refused)

\* Variant of register_signal: a call made after the sender was taken
\* installs the handlers again.
register_signal_reinstall ==
    /\ Setup
    /\ \E refused \in SUBSET Range(signals) :
          LET ids == installed_prefix(signals, refused) IN
          /\ signal_sender' = FALSE
          /\ registered_signals' = registered_signals \o ids
          /\ installed' = installed \cup Range(ids)
          /\ senders' = Len(ids)
          /\ signal_result' = IF Len(ids) = Len(signals) THEN "Ok" ELSE "Err"
    /\ UNCHANGED <<callbacks, signal_flag, signal_receiver, threads, hpc, wstate,
                   shutdown_flag, joined, process, alive, pc, clean_exit,
                   sweep_clean, result, history>>

\* Variant of register_signal: the error of a refused handler is dropped and
\* the call returns Ok.
register_signal_ignores_error ==
    /\ Setup
    /\ IF ~signal_sender
       THEN /\ signal_result' = "Ok"
            /\ UNCHANGED <<signal_sender, registered_signals, installed, senders>>
       ELSE \E refused \in SUBSET Range(signals) :
              LET ids == installed_prefix(signals, refused) IN
              /\ signal_sender' = FALSE
              /\ registered_signals' = registered_signals \o ids
              /\ installed' = installed \cup Range(ids)
              /\ senders' = Len(ids)
              /\ signal_result' = "Ok"
    /\ UNCHANGED <<callbacks, signal_flag, signal_receiver, threads, hpc, wstate,
                   shutdown_flag, joined, process, alive, pc, clean_exit,
                   sweep_clean, result, history>>

\* Upkeep::register_signal. The sender is taken out of the Option; every
\* installed handler owns a clone of it and the taken sender is dropped when
\* the function returns, also when it returns the error.
register_signal ==
    /\ Setup
    /\ IF ~signal_sender
       THEN /\ signal_result' = "Ok"
            /\ UNCHANGED <<signal_sender, registered_signals, installed, senders>>
       ELSE \E refused \in SUBSET Range(signals) :
              LET ids == installed_prefix(signals, refused) IN
              /\ signal_sender' = FALSE
              /\ registered_signals' = registered_signals \o ids
              /\ installed' = installed \cup Range(ids)
              /\ senders' = Len(ids)
              /\ signal_result' = IF Len(ids) = Len(signals) THEN "Ok" ELSE "Err"
    /\ UNCHANGED <<callbacks, signal_flag, signal_receiver, threads, hpc, wstate,
                   shutdown_flag, joined, process, alive, pc, clean_exit,
                   sweep_clean, result, history>>

----------------------------------------------------------------------------
\* The signal handler closure of register_signal, run by the OS on a signal
\* that has a handler installed. The load and the store of signal_flag are
\* two separate steps of the closure.

\* Variant of handler_load: the flag is not looked at, the handler goes on.
handler_load_no_exit ==
    /\ Running
    /\ installed # {}
    /\ \E h \in Invocations :
        /\ hpc[h] = "idle"
        /\ \A g \in Invocations : g < h => hpc[g] # "idle"
        /\ hpc' = [hpc EXCEPT ![h] = "loaded"]
    /\ UNCHANGED <<upkeep, senders, installed, wstate, shutdown_flag, joined, process,
                   alive, host, history>>

\* signal_flag.load(): exit(1) when the flag is set, else go on.
handler_load ==
    /\ Running
    /\ installed # {}
    /\ \E h \in Invocations :
        /\ hpc[h] = "idle"
        /\ \A g \in Invocations : g < h => hpc[g] # "idle"
        /\ IF signal_flag
           THEN /\ process' = "exit1"
                /\ hpc' = [hpc EXCEPT ![h] = "done"]
           ELSE /\ hpc' = [hpc EXCEPT ![h] = "loaded"]
                /\ UNCHANGED process
    /\ UNCHANGED <<upkeep, senders, installed, wstate, shutdown_flag, joined, alive,
                   host, history>>

\* signal_flag.store(true); signal_sender.send(()).
handler_send ==
    /\ Running
    /\ \E h \in Invocations :
        /\ hpc[h] = "loaded"
        /\ hpc' = [hpc EXCEPT ![h] = "done"]
    /\ signal_flag' = TRUE
    /\ signal_receiver' = signal_receiver + 1
    /\ UNCHANGED <<callbacks, registered_signals, signal_sender, threads, senders,
                   installed, wstate, shutdown_flag, joined, process, alive,
                   host, history>>

----------------------------------------------------------------------------
\* Worker threads: the closure given to Builder::spawn returns or panics.
worker_exit ==
    /\ Running
    /\ \E w \in Workers :
        /\ wstate[w] = "running"
        /\ wstate' = [wstate EXCEPT ![w] = "exited"]
    /\ UNCHANGED <<upkeep, senders, installed, hpc, shutdown_flag, joined, process,
                   alive, host, history>>

\* A cooperative worker: its loop sees scope.should_shutdown() and the thread
\* function returns. A step of worker_exit, taken because of the stop request.
worker_stops(w) ==
    /\ Running
    /\ wstate[w] = "running"
    /\ shutdown_flag[w]
    /\ wstate' = [wstate EXCEPT ![w] = "exited"]
    /\ UNCHANGED <<upkeep, senders, installed, hpc, shutdown_flag, joined, process,
                   alive, host, history>>

worker_panic ==
    /\ Running
    /\ \E w \in Workers :
        /\ wstate[w] = "running"
        /\ wstate' = [wstate EXCEPT ![w] = "panicked"]
    /\ UNCHANGED <<upkeep, senders, installed, hpc, shutdown_flag, joined, process,
                   alive, host, history>>

----------------------------------------------------------------------------
\* The span collector of the zipkin tracer (util/tracing). Its thread is at
\* the condition of its while loop ("z_check"), in receiver.recv_timeout
\* ("z_recv") or in zipkin_process ("z_process").
Collecting == {"z_check", "z_recv", "z_process"}

\* zipkin(): the collector thread is spawned and handed to register_thread.
zipkin ==
    /\ Setup
    /\ \E w \in Workers : wstate[w] = "unspawned"
    /\ threads' = Append(threads, ThreadMeta(NextWorker, TRUE))
    /\ wstate' = [wstate EXCEPT ![NextWorker] = "z_check"]
    /\ UNCHANGED <<callbacks, registered_signals, signal_flag, signal_receiver,
                   signal_sender, senders, installed, hpc, shutdown_flag, joined,
                   process, alive, host, history>>

\* Variant of collector_loop: the loop never looks at the shutdown flag.
collector_loop_deaf(flag) == "z_recv"

\* while !scope.should_shutdown(): where the collector goes from the condition.
collector_loop(flag) == IF flag THEN "exited" ELSE "z_recv"

\* The match on receiver.recv_timeout(..): a span and a timeout go on to
\* zipkin_process, any other error breaks the loop.
collector_received(outcome) ==
    IF outcome \in {"span", "timeout"} THEN "z_process" ELSE "exited"

zipkin_should_shutdown(w) ==
    /\ Running
    /\ wstate[w] = "z_check"
    /\ wstate' = [wstate EXCEPT ![w] = collector_loop(shutdown_flag[w])]
    /\ UNCHANGED <<upkeep, senders, installed, hpc, shutdown_flag, joined, process,
                   alive, host, history>>

zipkin_recv_timeout(w) ==
    /\ Running
    /\ wstate[w] = "z_recv"
    /\ \E outcome \in {"span", "timeout", "disconnected"} :
          wstate' = [wstate EXCEPT ![w] = collector_received(outcome)]
    /\ UNCHANGED <<upkeep, senders, installed, hpc, shutdown_flag, joined, process,
                   alive, host, history>>

\* zipkin_process collects and flushes, logs a failed flush and returns.
zipkin_process(w) ==
    /\ Running
    /\ wstate[w] = "z_process"
    /\ wstate' = [wstate EXCEPT ![w] = "z_check"]
    /\ UNCHANGED <<upkeep, senders, installed, hpc, shutdown_flag, joined, process,
                   alive, host, history>>

----------------------------------------------------------------------------
\* Pieces of keepalive(), shutdown() and join_threads().

\* Variant of select_set: the completion sources are added last thread first.
select_set_reversed(ths) ==
    [n \in 0..Len(ths) |->
        IF n = 0 THEN [source |-> "signal", handle |-> 0]
        ELSE [source |-> "thread", handle |-> ths[Len(ths) + 1 - n].handle]]

\* Upkeep::select_set: index 0 is the signal receiver, index n is the
\* completion source of self.threads[n - 1].
select_set(ths) ==
    [n \in 0..Len(ths) |->
        IF n = 0 THEN [source |-> "signal", handle |-> 0]
        ELSE [source |-> "thread", handle |-> ths[n].handle]]

\* Variant of source_ready: a queued notification does not make the signal
\* source ready.
source_ready_no_signal(src) ==
    IF src.source = "signal" THEN senders = 0
    ELSE wstate[src.handle] \in Ended

\* Variant of source_ready: every source counts as ready at any time.
source_ready_always(src) == TRUE

\* A receive operation of the set is ready when it would not block: a
\* notification is queued, or every sender of the channel was dropped. A
\* thread's completion source is ready once the thread function has ended.
source_ready(src) ==
    IF src.source = "signal" THEN signal_receiver > 0 \/ senders = 0
    ELSE wstate[src.handle] \in Ended

\* Select::ready returns the index of one of the ready operations.
ready(set) == {n \in DOMAIN set : source_ready(set[n])}

\* Variant of join_returns: the join gives up on a thread that still runs.
join_returns_always(w) == TRUE

\* MapThread::join returns once the thread has ended, or at once when the
\* handle was joined before.
join_returns(w) == joined[w] \/ wstate[w] \in Ended

\* Variant of join: a handle does not remember that it was joined.
join_forgets(w) ==
    IF wstate[w] = "panicked" THEN JoinPanic ELSE JoinOk

join(w) ==
    IF joined[w] THEN JoinedAlready
    ELSE IF wstate[w] = "panicked" THEN JoinPanic
    ELSE JoinOk

\* keepalive(): the match on the result of join in the wait loop.
paniced(jr) == jr = JoinPanic

\* Variant of wait_verdict: the signal branch marks the exit unclean too.
wait_verdict_signal_unclean(index, clean, jr) ==
    IF index = 0 \/ paniced(jr) THEN FALSE ELSE clean

\* keepalive(): clean_exit after one iteration of the wait loop; only the
\* panic branch of the match assigns it.
wait_verdict(index, clean, jr) ==
    IF index # 0 /\ paniced(jr) THEN FALSE ELSE clean

\* Variant of leaves_loop: a handle joined before never breaks the loop.
leaves_loop_joined_stays(index, required, jr) ==
    IF index = 0 THEN TRUE
    ELSE IF paniced(jr) THEN TRUE
    ELSE required /\ jr # JoinedAlready

\* Variant of leaves_loop: the exit of any thread breaks the loop.
leaves_loop_any(index, required, jr) == TRUE

\* keepalive(): does the wait loop break on this index and this join result.
leaves_loop(index, required, jr) ==
    IF index = 0 THEN TRUE
    ELSE IF paniced(jr) THEN TRUE
    ELSE required

\* Variant of remove: the entry at the front is removed, whatever the index.
remove_front(ths, index) == Tail(ths)

\* keepalive(): self.threads.remove(index - 1).
remove(ths, index) ==
    [i \in 1..(Len(ths) - 1) |-> IF i < index THEN ths[i] ELSE ths[i + 1]]

\* A ThreadMeta that leaves self.threads is dropped with its handle: the
\* handle's shutdown flag and join state exist no longer.
dropped(f, w) == [f EXCEPT ![w] = FALSE]

\* Variant of shutdown: the callbacks run, no thread is asked to stop.
shutdown_no_stop(ths, cbs) ==
    [i \in 1..Len(cbs) |-> Ev("cb", cbs[i], NoResult)]

\* Variant of shutdown: the callbacks run before the threads are asked to stop.
shutdown_callbacks_first(ths, cbs) ==
    [i \in 1..Len(cbs) |-> Ev("cb", cbs[i], NoResult)] \o
    [i \in 1..Len(ths) |-> Ev("stop", ths[i].handle, NoResult)]

\* Variant of shutdown: the threads are asked to stop last registered first.
shutdown_threads_reversed(ths, cbs) ==
    [i \in 1..Len(ths) |-> Ev("stop", ths[Len(ths) + 1 - i].handle, NoResult)] \o
    [i \in 1..Len(cbs) |-> Ev("cb", cbs[i], NoResult)]

\* Variant of shutdown: the callbacks run last registered first.
shutdown_reversed(ths, cbs) ==
    [i \in 1..Len(ths) |-> Ev("stop", ths[i].handle, NoResult)] \o
    [i \in 1..Len(cbs) |-> Ev("cb", cbs[Len(cbs) + 1 - i], NoResult)]

\* shutdown(): request_shutdown() on every thread in order, then every
\* callback in order; the events it produces.
shutdown(ths, cbs) ==
    [i \in 1..Len(ths) |-> Ev("stop", ths[i].handle, NoResult)] \o
    [i \in 1..Len(cbs) |-> Ev("cb", cbs[i], NoResult)]

\* The effect of the events of one execution of shutdown().
Count(evs, e) == Cardinality({i \in DOMAIN evs : evs[i] = e})
Shutdown(evs) ==
    /\ shutdown_flag' = [w \in Workers |->
                            shutdown_flag[w] \/ Count(evs, Ev("stop", w, NoResult)) > 0]
    /\ cb_count' = [c \in CallbackIds |-> cb_count[c] + Count(evs, Ev("cb", c, NoResult))]
    /\ shutdowns' = shutdowns + 1

\* Variant of sweep_reports: JoinedAlready is reported like a panic.
sweep_reports_any(jr) == jr # JoinOk

\* join_threads(): the body of the loop for one join result (JoinedAlready
\* continues, every other error is reported and makes the result unclean).
sweep_reports(jr) == jr \notin {JoinOk, JoinedAlready}
\* Variant of sweep_verdict: the verdict is the one of the last join.
sweep_verdict_last(clean, jr) == ~sweep_reports(jr)

sweep_verdict(clean, jr) == IF sweep_reports(jr) THEN FALSE ELSE clean

\* Variant of verdict: the verdict of the sweep is lost.
verdict_wait_only(join_clean, wait_clean) == wait_clean

\* Variant of verdict: the verdict of the wait loop is lost.
verdict_sweep_only(join_clean, wait_clean) == join_clean

\* keepalive(): self.join_threads() && clean_exit.
verdict(join_clean, wait_clean) == join_clean /\ wait_clean

----------------------------------------------------------------------------
\* The host calls keepalive(): clean_exit = true and the loop is entered.
\* The values the previous call returned are no longer held by the host.
keepalive_call ==
    /\ Host
    /\ kcalls < MaxKeepalive
    /\ kcalls' = kcalls + 1
    /\ pc' = "wait"
    /\ clean_exit' = TRUE
    /\ log' = <<>>
    /\ trigger' = "none"
    /\ at_call' = threads
    /\ prev' = IF pc # "returned" THEN prev
               ELSE IF result THEN "clean" ELSE "unclean"
    /\ result' = TRUE
    /\ signal_result' = "none"
    /\ UNCHANGED <<upkeep, env, sweep_clean, cb_count, panic_log, scalls, shutdowns>>

\* Variant of keepalive_wait: the signal branch receives the notification.
keepalive_wait_recv ==
    /\ Running
    /\ pc = "wait"
    /\ \E index \in ready(select_set(threads)) :
        IF index = 0
        THEN /\ pc' = "shutdown"
             /\ trigger' = "signal"
             /\ signal_receiver' = IF signal_receiver > 0 THEN signal_receiver - 1 ELSE 0
             /\ clean_exit' = wait_verdict(index, clean_exit, NoResult)
             /\ UNCHANGED <<threads, joined, shutdown_flag, panic_log, log>>
        ELSE LET thread == threads[index]
                 jr == join(thread.handle)
             IN  /\ clean_exit' = wait_verdict(index, clean_exit, jr)
                 /\ panic_log' = IF paniced(jr)
                                 THEN [panic_log EXCEPT ![thread.handle] = @ + 1]
                                 ELSE panic_log
                 /\ log' = Append(log, Ev("wait_join", thread.handle, jr))
                 /\ IF leaves_loop(index, thread.required, jr)
                    THEN /\ pc' = "shutdown"
                         /\ trigger' = IF paniced(jr) THEN "panic" ELSE "exit"
                         /\ joined' = [joined EXCEPT ![thread.handle] = TRUE]
                         /\ UNCHANGED <<threads, shutdown_flag, signal_receiver>>
                    ELSE /\ pc' = "wait"
                         /\ threads' = remove(threads, index)
                         /\ joined' = dropped(joined, thread.handle)
                         /\ shutdown_flag' = dropped(shutdown_flag, thread.handle)
                         /\ UNCHANGED <<trigger, signal_receiver>>
    /\ UNCHANGED <<callbacks, registered_signals, signal_flag,
                   signal_sender, senders, installed, hpc, wstate,
                   process, alive, sweep_clean, result, signal_result,
                   cb_count, at_call, prev, kcalls, scalls, shutdowns>>

\* One iteration of the wait loop of keepalive(): wait for a ready source,
\* join the thread that is ready, then break or remove it.
keepalive_wait ==
    /\ Running
    /\ pc = "wait"
    /\ \E index \in ready(select_set(threads)) :
        IF index = 0
        THEN /\ pc' = "shutdown"
             /\ trigger' = "signal"
             /\ clean_exit' = wait_verdict(index, clean_exit, NoResult)
             /\ UNCHANGED <<threads, joined, shutdown_flag, panic_log, log>>
        ELSE LET thread == threads[index]
                 jr == join(thread.handle)
             IN  /\ clean_exit' = wait_verdict(index, clean_exit, jr)
                 /\ panic_log' = IF paniced(jr)
                                 THEN [panic_log EXCEPT ![thread.handle] = @ + 1]
                                 ELSE panic_log
                 /\ log' = Append(log, Ev("wait_join", thread.handle, jr))
                 /\ IF leaves_loop(index, thread.required, jr)
                    THEN /\ pc' = "shutdown"
                         /\ trigger' = IF paniced(jr) THEN "panic" ELSE "exit"
                         /\ joined' = [joined EXCEPT ![thread.handle] = TRUE]
                         /\ UNCHANGED <<threads, shutdown_flag>>
                    ELSE /\ pc' = "wait"
                         /\ threads' = remove(threads, index)
                         /\ joined' = dropped(joined, thread.handle)
                         /\ shutdown_flag' = dropped(shutdown_flag, thread.handle)
                         /\ UNCHANGED trigger
    /\ UNCHANGED <<callbacks, registered_signals, signal_flag, signal_receiver,
                   signal_sender, senders, installed, hpc, wstate,
                   process, alive, sweep_clean, result, signal_result,
                   cb_count, at_call, prev, kcalls, scalls, shutdowns>>

\* keepalive() after the loop: self.shutdown(), then join_threads() starts.
keepalive_shutdown ==
    /\ Running
    /\ pc = "shutdown"
    /\ LET evs == shutdown(threads, callbacks) IN
        /\ Shutdown(evs)
        /\ log' = log \o evs
    /\ sweep_clean' = TRUE
    /\ pc' = "join"
    /\ UNCHANGED <<upkeep, senders, installed, hpc, wstate, joined, process, alive,
                   clean_exit, result, signal_result, panic_log, trigger,
                   at_call, prev, kcalls, scalls>>

\* join_threads(): one iteration of the loop over self.threads.drain(..).
join_threads ==
    /\ Running
    /\ pc = "join"
    /\ threads # <<>>
    /\ LET w == Head(threads).handle
           jr == join(w)
       IN  /\ join_returns(w)
           /\ joined' = dropped(joined, w)
           /\ shutdown_flag' = dropped(shutdown_flag, w)
           /\ sweep_clean' = sweep_verdict(sweep_clean, jr)
           /\ panic_log' = IF sweep_reports(jr)
                           THEN [panic_log EXCEPT ![w] = @ + 1]
                           ELSE panic_log
           /\ log' = Append(log, Ev("join", w, jr))
    /\ threads' = Tail(threads)
    /\ UNCHANGED <<callbacks, registered_signals, signal_flag, signal_receiver,
                   signal_sender, senders, installed, hpc, wstate,
                   process, alive, pc, clean_exit, result, signal_result,
                   cb_count, trigger, at_call, prev, kcalls, scalls, shutdowns>>

\* keepalive() returns self.join_threads() && clean_exit.
keepalive_return ==
    /\ Running
    /\ pc = "join"
    /\ threads = <<>>
    /\ result' = verdict(sweep_clean, clean_exit)
    /\ pc' = "returned"
    /\ clean_exit' = TRUE
    /\ sweep_clean' = TRUE
    /\ UNCHANGED <<upkeep, env, signal_result, history>>

\* The host calls shutdown() itself, as tests::callback and
\* tests::thread_shuts_down do.
shutdown_call ==
    /\ Host
    /\ scalls < MaxShutdown
    /\ scalls' = scalls + 1
    /\ LET evs == shutdown(threads, callbacks) IN
        /\ Shutdown(evs)
        /\ log' = evs
    /\ pc' = "shutdown_done"
    /\ result' = TRUE
    /\ signal_result' = "none"
    /\ trigger' = "none"
    /\ at_call' = <<>>
    /\ prev' = IF pc # "returned" THEN prev
               ELSE IF result THEN "clean" ELSE "unclean"
    /\ UNCHANGED <<upkeep, senders, installed, hpc, wstate, joined, process, alive,
                   clean_exit, sweep_clean, panic_log, kcalls>>

\* Variant of drop: the recorded handlers are forgotten, not unregistered.
drop_no_unregister ==
    /\ Host
    /\ alive' = FALSE
    /\ registered_signals' = <<>>
    /\ UNCHANGED <<callbacks, signal_flag, signal_receiver, signal_sender, threads,
                   senders, installed, hpc, wstate, shutdown_flag, joined, process,
                   host, history>>

\* impl Drop for Upkeep: every recorded handler is unregistered, which drops
\* the sender its closure owns.
drop ==
    /\ Host
    /\ alive' = FALSE
    /\ installed' = installed \ Range(registered_signals)
    /\ senders' = (IF signal_sender THEN 1 ELSE 0)
    /\ registered_signals' = <<>>
    /\ UNCHANGED <<callbacks, signal_flag, signal_receiver, signal_sender, threads,
                   hpc, wstate, shutdown_flag, joined, process, host, history>>

----------------------------------------------------------------------------
Next ==
    \/ on_shutdown
    \/ register_thread
    \/ register_thread_optional
    \/ register_signal
    \/ handler_load
    \/ handler_send
    \/ worker_exit
    \/ worker_panic
    \/ keepalive_call
    \/ keepalive_wait
    \/ keepalive_shutdown
    \/ join_threads
    \/ keepalive_return
    \/ shutdown_call
    \/ drop

Spec == Init /\ [][Next]_vars

\* The scheduling keepalive() relies on: the thread that called keepalive()
\* keeps running it, and every worker is cooperative, it returns once it was
\* asked to stop. The hosts of SpecLive register threads and signal handlers
\* and call keepalive(); callbacks return at once and add nothing to whether
\* keepalive() returns, so these hosts register none.
NextLive ==
    \/ register_thread
    \/ register_thread_optional
    \/ register_signal
    \/ handler_load
    \/ handler_send
    \/ worker_exit
    \/ worker_panic
    \/ keepalive_call
    \/ keepalive_wait
    \/ keepalive_shutdown
    \/ join_threads
    \/ keepalive_return

SpecLive ==
    /\ Init /\ [][NextLive]_vars
    /\ WF_vars(keepalive_wait)
    /\ WF_vars(keepalive_shutdown)
    /\ WF_vars(join_threads)
    /\ WF_vars(keepalive_return)
    /\ \A w \in Workers : WF_vars(worker_stops(w))

\* The hosts of SpecZipkin set up zipkin tracers, whose collectors are their
\* required threads, register optional threads of their own and call
\* keepalive(). Every thread is scheduled, and the optional ones are
\* cooperative.
NextZipkin ==
    \/ zipkin
    \/ register_thread_optional
    \/ worker_exit
    \/ worker_panic
    \/ \E w \in Workers : zipkin_should_shutdown(w)
    \/ \E w \in Workers : zipkin_recv_timeout(w)
    \/ \E w \in Workers : zipkin_process(w)
    \/ keepalive_call
    \/ keepalive_wait
    \/ keepalive_shutdown
    \/ join_threads
    \/ keepalive_return

SpecZipkin ==
    /\ Init /\ [][NextZipkin]_vars
    /\ WF_vars(keepalive_wait)
    /\ WF_vars(keepalive_shutdown)
    /\ WF_vars(join_threads)
    /\ WF_vars(keepalive_return)
    /\ \A w \in Workers :
         /\ WF_vars(worker_stops(w))
         /\ WF_vars(zipkin_should_shutdown(w))
         /\ WF_vars(zipkin_recv_timeout(w))
         /\ WF_vars(zipkin_process(w))

\* The hosts of Spec hand over threads they never joined. The hosts of
\* SpecJoined may also hand over a thread they joined; they install no signal
\* handler and stop the process through keepalive() only.
NextJoined ==
    \/ on_shutdown
    \/ register_thread
    \/ register_thread_optional
    \/ register_joined
    \/ worker_exit
    \/ worker_panic
    \/ keepalive_call
    \/ keepalive_wait
    \/ keepalive_shutdown
    \/ join_threads
    \/ keepalive_return
    \/ drop

SpecJoined == Init /\ [][NextJoined]_vars

----------------------------------------------------------------------------
\* Vocabulary of the properties.

\* Positions of the history log holding an event of one of the kinds ops.
At(ops) == {i \in DOMAIN log : log[i].op \in ops}

\* The callbacks the current call ran, in the order it ran them.
RECURSIVE CallbacksRun(_)
CallbacksRun(l) ==
    IF l = <<>> THEN <<>>
    ELSE IF Head(l).op = "cb" THEN <<Head(l).id>> \o CallbacksRun(Tail(l))
    ELSE CallbacksRun(Tail(l))

\* Workers of the registry keepalive() was called with that have panicked.
PanickedAtCall == {w \in Handles(at_call) : wstate[w] = "panicked"}

\* Was worker w registered as required in the registry keepalive() was
\* called with.
RequiredAtCall(w) == \E k \in DOMAIN at_call : at_call[k] = ThreadMeta(w, TRUE)

\* Position of the last join of the wait loop in the history log, 0 if none.
LastWaitJoin == IF At({"wait_join"}) = {} THEN 0
                ELSE CHOOSE i \in At({"wait_join"}) : \A j \in At({"wait_join"}) : j <= i

\* The workers of the events of kind op of a log, in the order of the log.
RECURSIVE EventIds(_, _)
EventIds(l, op) ==
    IF l = <<>> THEN <<>>
    ELSE IF Head(l).op = op THEN <<Head(l).id>> \o EventIds(Tail(l), op)
    ELSE EventIds(Tail(l), op)

\* The handles of a registry, in its order.
HandleSeq(ths) == [i \in 1..Len(ths) |-> ths[i].handle]

\* A sequence of worker ids in the order of their registration.
RegistrationOrder(ids) == \A i \in 1..(Len(ids) - 1) : ids[i] < ids[i + 1]

\* The rank of an event in a call: the joins of the wait loop, the stop
\* requests, the callbacks, the joins of the sweep.
Phase(op) == CASE op = "wait_join" -> 0
               [] op = "stop" -> 1
               [] op = "cb" -> 2
               [] op = "join" -> 3

\* The workers the wait loop of the current keepalive() joined and removed.
RemovedInWait ==
    {log[i].id : i \in {j \in At({"wait_join"}) :
                            ~paniced(log[j].res) /\ ~RequiredAtCall(log[j].id)}}

\* The registry the wait loop of the current keepalive() leaves behind.
WaitRegistry ==
    LET gone == RemovedInWait
        Stays(t) == t.handle \notin gone
    IN  SelectSeq(at_call, Stays)

\* The current call is keepalive(), past its wait loop.
Sweeping == pc \in {"join", "returned"}

\* keepalive() waits and a shutdown trigger has occurred: a notification is
\* queued, a registered worker has panicked or a required worker has exited.
TriggerPending ==
    /\ pc = "wait"
    /\ \/ signal_receiver > 0
       \/ \E i \in DOMAIN threads :
            \/ wstate[threads[i].handle] = "panicked"
            \/ threads[i].required /\ wstate[threads[i].handle] = "exited"

\* The current call is keepalive().
InKeepalive == pc \in {"wait", "shutdown", "join", "returned"}

\* The joins of worker w in the current call, of the wait loop and of the sweep.
JoinsOf(w) == {i \in DOMAIN log : log[i].op \in {"wait_join", "join"} /\ log[i].id = w}

\* This step is an iteration of the wait loop of keepalive().
WaitIteration == pc = "wait" /\ (pc' = "shutdown" \/ log' # log)

\* A worker of the registry has ended.
SomeEnded == \E i \in DOMAIN threads : wstate[threads[i].handle] \in Ended

\* The signal state of the coordinator and of the handlers it installed.
signal_state == <<registered_signals, signal_flag, signal_receiver, signal_sender,
                  senders, installed>>

\* The wait of keepalive() cannot return: no source of its set is ready.
Blocked == pc = "wait" /\ ready(select_set(threads)) = {}

\* shutdown() has run in the current call.
ShutdownRan == pc \in {"join", "returned", "shutdown_done"}

----------------------------------------------------------------------------
\* C1: the shutdown transition runs once per coordinator: no callback is ever
\* invoked more than once in total, and an execution of shutdown() after the
\* first one issues no stop request and invokes no callback.
C1_ShutdownOnce ==
    /\ \A c \in CallbackIds : cb_count[c] <= 1
    /\ shutdowns >= 2 => At({"stop", "cb"}) = {}

\* C2: when keepalive() returns and a worker of its registry has panicked, it
\* returns false and that panic was reported exactly once; a panicked worker in
\* the registry never leaves the wait blocked.
C2_PanicUnclean ==
    /\ pc = "returned" =>
         \A w \in PanickedAtCall : ~result /\ panic_log[w] = 1
    /\ (\E i \in DOMAIN threads : wstate[threads[i].handle] = "panicked") => ~Blocked

\* C2 witness: keepalive() has returned false after the panic of an optional
\* worker made it leave the wait loop.
C2_Witness ==
    /\ pc = "returned" /\ trigger = "panic" /\ ~result
    /\ \E i \in DOMAIN at_call :
         /\ ~at_call[i].required
         /\ log[1] = Ev("wait_join", at_call[i].handle, JoinPanic)
         /\ panic_log[at_call[i].handle] = 1

\* C3: when the exit of a required worker ends the wait and no worker
\* panicked, keepalive() returns true; and every worker joined in the final
\* sweep was sent its stop request before.
C3_RequiredExit ==
    /\ (pc = "returned" /\ trigger = "exit" /\ PanickedAtCall = {}) => result
    /\ \A i \in At({"join"}) :
         \E j \in At({"stop"}) : j < i /\ log[j].id = log[i].id

\* C3 witness: a required worker exited, another worker was stopped and joined
\* after it, and keepalive() returned true.
C3_Witness ==
    /\ pc = "returned" /\ trigger = "exit" /\ result
    /\ \E i \in At({"join"}) : log[i].res = JoinOk

\* C4: the wait loop iteration that joins an optional worker which exited
\* without a panic removes exactly that worker, goes back to waiting, sends no
\* stop request, runs no callback and leaves every worker thread as it is.
C4_OptionalExitStep ==
    \A i \in DOMAIN threads :
        ( /\ pc = "wait"
          /\ ~threads[i].required
          /\ log' = Append(log, Ev("wait_join", threads[i].handle, JoinOk)) )
        => /\ pc' = "wait"
           /\ threads' = remove(threads, i)
           /\ trigger' = "none"
           /\ shutdowns' = shutdowns
           /\ cb_count' = cb_count
           /\ wstate' = wstate
           /\ \A j \in DOMAIN threads : j # i =>
                shutdown_flag'[threads[j].handle] = shutdown_flag[threads[j].handle]

C4_OptionalExit == [][C4_OptionalExitStep]_vars

\* C4 witness: an optional worker was joined and removed, the coordinator is
\* waiting again and another worker is still running, not asked to stop.
C4_Witness ==
    /\ pc = "wait"
    /\ At({"wait_join"}) # {}
    /\ \E i \in DOMAIN threads :
         wstate[threads[i].handle] = "running" /\ ~shutdown_flag[threads[i].handle]

\* C5: an execution of shutdown() runs every registered callback exactly
\* once, in registration order, and all of them before the first join of the
\* final sweep.
C5_CallbackOrder ==
    /\ ShutdownRan => CallbacksRun(log) = callbacks
    /\ \A i \in At({"cb"}) : \A j \in At({"join"}) : i < j

\* C5 witness: two callbacks have run and a worker was joined in the sweep.
C5_Witness ==
    /\ Len(callbacks) >= 2
    /\ At({"cb"}) # {}
    /\ At({"join"}) # {}

C7_SecondKeepalive ==
    (kcalls >= 2 /\ prev = "clean" /\ pc \in {"wait", "shutdown", "join", "returned"}) =>
        /\ ~Blocked
        /\ At({"stop", "cb", "join", "wait_join"}) = {}
        /\ pc = "returned" => result

\* C8: keepalive() leaves its wait loop only when a notification is on the
\* signal channel, a registered worker has panicked or a required worker has
\* exited.
C8_LeavesOnEvent ==
    pc = "shutdown" =>
        \/ signal_receiver > 0
        \/ \E i \in DOMAIN threads : wstate[threads[i].handle] = "panicked"
        \/ \E i \in DOMAIN threads :
             threads[i].required /\ wstate[threads[i].handle] = "exited"

\* C9: keepalive() returns true exactly when no join of the wait loop and no
\* join of the final sweep reported a panic; the sweep runs also after a panic
\* in the wait loop: the worker that panicked is joined again by it.
C9_Verdict ==
    pc = "returned" =>
        /\ result = (\A i \in At({"wait_join", "join"}) : log[i].res # JoinPanic)
        /\ \A i \in At({"wait_join"}) : log[i].res = JoinPanic =>
             \E j \in At({"join"}) : j > i /\ log[j].id = log[i].id

\* C9 witness: the wait loop found a panic, the sweep joined two workers and
\* keepalive() returned false.
C9_Witness ==
    /\ pc = "returned" /\ ~result
    /\ \E i \in At({"wait_join"}) : log[i].res = JoinPanic
    /\ Cardinality(At({"join"})) >= 2

\* C10: when a signal notification ends the wait and no worker of the
\* registry panicked, keepalive() returns true.
C10_SignalClean ==
    (pc = "returned" /\ trigger = "signal" /\ signal_receiver > 0
        /\ PanickedAtCall = {}) => result

\* C10 witness: a notification ended the wait, a worker was joined in the
\* sweep and keepalive() returned true.
C10_Witness ==
    /\ pc = "returned" /\ trigger = "signal" /\ signal_receiver > 0 /\ result
    /\ \E i \in At({"join"}) : log[i].res = JoinOk

----------------------------------------------------------------------------
\* C11: whatever the interleaving of the handler invocations, at most one
\* notification is ever pushed onto the signal channel, and an invocation
\* that did not push it has terminated the process.
C11_OneNotification ==
    /\ signal_receiver <= 1
    /\ process = "running" =>
         Cardinality({h \in Invocations : hpc[h] = "done"}) <= 1

\* C12: a handler invocation that starts when the one-shot flag is set
\* terminates the process, and after that the coordinator takes no step: no
\* callback runs and no worker is joined.
C12_SecondSignalStep ==
    /\ (signal_flag /\ \E h \in Invocations : hpc[h] = "idle" /\ hpc'[h] # "idle")
         => process' = "exit1"
    /\ process = "exit1" =>
         /\ process' = "exit1"
         /\ <<pc, threads, log, cb_count, joined, result>>' =
               <<pc, threads, log, cb_count, joined, result>>

C12_SecondSignalKills == [][C12_SecondSignalStep]_vars

\* C12 witness: the process was terminated by a second signal after
\* keepalive() left its wait loop and before shutdown() ran: a registered
\* callback never ran and a registered worker was never joined in the sweep.
C12_Witness ==
    /\ process = "exit1" /\ pc = "shutdown" /\ trigger = "signal"
    /\ callbacks # <<>> /\ threads # <<>>
    /\ At({"cb", "join"}) = {}

\* C13: once the sender was taken, no step installs or records a further
\* handler and no register_signal() call returns an error; a coordinator never
\* has more than one handler per signal.
C13_RegisterOnceStep ==
    ~signal_sender =>
        /\ installed' \subseteq installed
        /\ Len(registered_signals') <= Len(registered_signals)
        /\ signal_result' # signal_result => signal_result' \in {"Ok", "none"}

C13_RegisterOnce ==
    /\ [][C13_RegisterOnceStep]_vars
    /\ [](Len(registered_signals) <= Len(signals) /\ Cardinality(installed) <= Len(signals))

\* C13 witness: a register_signal() call made after the sender was taken has
\* returned Ok and installed nothing: one handler only is installed.
C13_Witness ==
    /\ ~signal_sender /\ signal_result = "Ok"
    /\ Len(registered_signals) = 1

\* C14: the handlers installed in the OS are exactly the recorded ones while
\* the coordinator lives, and none remains once it was dropped.
C14_HandlersUnregistered ==
    /\ alive => Range(registered_signals) = installed
    /\ ~alive => installed = {} /\ registered_signals = <<>>

\* C14 witness: register_signal() failed after it installed a handler (a
\* handler invocation has run), and the coordinator was dropped.
C14_Witness ==
    /\ ~alive /\ signal_result = "Err"
    /\ hpc[1] # "idle"
    /\ installed = {}

\* C15 as stated: keepalive() never leaves its wait loop on a join that failed
\* with 'already joined', whether the worker is required or optional.
C15_AlreadyJoinedStays ==
    ~(/\ pc = "shutdown"
      /\ LastWaitJoin # 0
      /\ log[LastWaitJoin].res = JoinedAlready
      /\ trigger = "exit")

\* C15 amended: a join of the wait loop that fails with 'already joined' is
\* handled as a clean exit of that worker. An optional worker is removed and
\* the loop goes on; a required worker ends the wait and triggers the
\* shutdown. No panic is reported and the wait verdict stays clean.
C15_AlreadyJoined ==
    \A i \in At({"wait_join"}) :
        log[i].res = JoinedAlready =>
            LET w == log[i].id IN
            /\ panic_log[w] = 0
            /\ (\A j \in At({"wait_join"}) : ~paniced(log[j].res)) /\ pc \in {"wait", "shutdown", "join"}
                   => clean_exit
            /\ IF RequiredAtCall(w)
               THEN /\ i = LastWaitJoin
                    /\ pc \in {"shutdown", "join"} => trigger = "exit"
                    /\ pc = "shutdown" => w \in Handles(threads)
               ELSE /\ w \notin Handles(threads)
                    /\ (pc \in {"shutdown", "join"} /\ trigger \in {"exit", "panic"})
                          => i < LastWaitJoin

\* C15 witness: both cases in one call. An optional worker joined before was
\* removed, the loop went on, and a required worker joined before ended it.
C15_Witness ==
    /\ pc = "shutdown" /\ trigger = "exit"
    /\ \E i, j \in At({"wait_join"}) :
        /\ i < j
        /\ log[i].res = JoinedAlready /\ ~RequiredAtCall(log[i].id)
        /\ log[j].res = JoinedAlready /\ RequiredAtCall(log[j].id)

\* C16: the sweep of join_threads() joins every worker the wait loop left in
\* the registry, one after the other and whatever the earlier joins returned;
\* its verdict is unclean exactly when one of its joins reported a panic, so
\* an 'already joined' result never changes it.
C16_SweepJoinsAll ==
    [](
    /\ pc = "join" =>
         /\ EventIds(log, "join") \o HandleSeq(threads) = HandleSeq(WaitRegistry)
         /\ sweep_clean = (\A i \in At({"join"}) : log[i].res # JoinPanic)
    /\ pc = "returned" =>
         /\ EventIds(log, "join") = HandleSeq(WaitRegistry)
         /\ result = (\A i \in At({"wait_join", "join"}) : log[i].res # JoinPanic)
    /\ Sweeping => \A i \in At({"join"}) : log[i].res = JoinPanic => panic_log[log[i].id] >= 1
    )

\* C16 witness: the sweep joined a panicked worker first, went on with a
\* worker that was joined already, and keepalive() returned false.
C16_Witness ==
    /\ pc = "returned" /\ ~result
    /\ \E i, j \in At({"join"}) :
        i < j /\ log[i].res = JoinPanic /\ log[j].res = JoinedAlready

\* C17: the register_signal() call that takes the sender returns Err exactly
\* when the OS refused one of the two handlers, and keepalive() returns a
\* boolean with the process running whatever the joins returned.
C17_OnlyErrorStep ==
    /\ (signal_sender /\ ~signal_sender') =>
          signal_result' = IF installed' = Range(signals) THEN "Ok" ELSE "Err"
    /\ (pc = "join" /\ pc' = "returned") =>
          /\ result' \in BOOLEAN
          /\ process' = "running"
          /\ signal_result' # "Err"

C17_OnlyError == [][C17_OnlyErrorStep]_vars

\* C17 witness: the SIGTERM handler was refused after the SIGINT handler was
\* installed, and register_signal() returned Err.
C17_Witness ==
    /\ alive /\ signal_result = "Err"
    /\ registered_signals = <<"SIGINT">>

\* C18: in every call the stop requests all come before the callbacks and the
\* callbacks all before the joins of the sweep; the joins of the wait loop come
\* before all of them, and nothing of the shutdown happens while waiting.
C18_PhaseOrder ==
    [](
    /\ \A i \in 1..(Len(log) - 1) : Phase(log[i].op) <= Phase(log[i + 1].op)
    /\ pc \in {"wait", "shutdown"} => \A i \in DOMAIN log : log[i].op = "wait_join"
    /\ Sweeping =>
         /\ Cardinality(At({"stop"})) = Len(WaitRegistry)
         /\ Cardinality(At({"cb"})) = Len(callbacks)
    )

\* C18 witness: a keepalive() with two stop requests, two callbacks and two
\* joins of the sweep has returned.
C18_Witness ==
    /\ pc = "returned"
    /\ Cardinality(At({"stop"})) = 2
    /\ Cardinality(At({"cb"})) = 2
    /\ Cardinality(At({"join"})) = 2

C20_WaitSetIndex ==
    [](
    /\ pc = "wait" =>
         LET set == select_set(threads) IN
         /\ DOMAIN set = 0..Len(threads)
         /\ set[0].source = "signal"
         /\ \A n \in 1..Len(threads) :
              set[n] = [source |-> "thread", handle |-> threads[n].handle]
         /\ ready(set) \subseteq 0..Len(threads)
         /\ Handles(threads) = Handles(at_call) \ {log[i].id : i \in At({"wait_join"})}
    /\ \A i \in DOMAIN log : log[i].op = "wait_join" => wstate[log[i].id] \in Ended
    )

\* C20 witness: the wait loop joined and removed one worker, built a shorter
\* set and joined the other worker.
C20_Witness ==
    /\ Cardinality(At({"wait_join"})) = 2
    /\ pc \in {"wait", "shutdown"}

\* C21: with the coordinator scheduled and cooperative workers, a keepalive()
\* that waits when a shutdown trigger has occurred returns, unless a second
\* signal terminates the process; and keepalive() has returned only when every
\* worker of its registry has ended: it waits for a worker that runs on.
C21_Returns ==
    /\ TriggerPending ~> (pc = "returned" \/ process = "exit1")
    /\ [](pc = "returned" => \A w \in Handles(at_call) : wstate[w] \in Ended)

\* C21 witness: a signal ended the wait, a running worker was asked to stop,
\* exited and was joined, and keepalive() returned.
C21_Witness ==
    /\ pc = "returned" /\ trigger = "signal" /\ signal_receiver > 0
    /\ \E i \in At({"join"}) :
         /\ log[i].res = JoinOk
         /\ wstate[log[i].id] = "exited"
         /\ \E j \in At({"stop"}) : log[j].id = log[i].id

\* C22: during keepalive() a worker of its registry that is no longer in the
\* registry was joined, in the wait loop without a panic or in the sweep; when
\* keepalive() has returned the registry is empty and every worker it was
\* called with has been joined.
C22_LeavesJoined ==
    [](
    InKeepalive =>
        /\ \A w \in Handles(at_call) \ Handles(threads) :
             \E i \in JoinsOf(w) :
                 \/ log[i].op = "join"
                 \/ log[i].op = "wait_join" /\ ~paniced(log[i].res)
        /\ Handles(threads) \subseteq Handles(at_call)
        /\ pc = "returned" =>
             /\ threads = <<>>
             /\ \A w \in Handles(at_call) : JoinsOf(w) # {}
    )

\* C22 witness: keepalive() returned after one worker left the registry in
\* the wait loop and another one in the sweep.
C22_Witness ==
    /\ pc = "returned" /\ Len(at_call) = 2
    /\ \E v, w \in Handles(at_call) :
        /\ v # w
        /\ \A i \in JoinsOf(v) : log[i].op = "wait_join"
        /\ \A i \in JoinsOf(w) : log[i].op = "join"

\* C23: the worker whose join ended the wait stays in the registry until the
\* sweep, is sent a stop request and is joined again by the sweep with the
\* result 'already joined'; its panic is reported once and makes keepalive()
\* return false, its clean exit leaves the result to the other workers. No
\* worker is joined more than twice in a call.
C23_TriggerJoinedTwice ==
    [](
    /\ \A w \in Handles(at_call) : Cardinality(JoinsOf(w)) <= 2
    /\ (pc \in {"shutdown", "join", "returned"} /\ trigger \in {"exit", "panic"}) =>
         LET w == log[LastWaitJoin].id IN
         /\ pc = "shutdown" => w \in Handles(threads)
         /\ Sweeping =>
              /\ \E i \in At({"stop"}) : log[i].id = w
              /\ w \notin Handles(threads) =>
                   \E i \in At({"join"}) : log[i] = Ev("join", w, JoinedAlready)
         /\ panic_log[w] = IF trigger = "panic" THEN 1 ELSE 0
         /\ pc = "returned" =>
              IF trigger = "panic" THEN ~result
              ELSE result = (\A i \in At({"join"}) : log[i].res # JoinPanic)
    )

\* C23 witness: a panic ended the wait, the sweep joined the panicked worker
\* again with 'already joined', and keepalive() returned false with one report.
C23_Witness ==
    /\ pc = "returned" /\ trigger = "panic" /\ ~result
    /\ LET w == log[LastWaitJoin].id IN
         /\ panic_log[w] = 1
         /\ Cardinality(JoinsOf(w)) = 2
         /\ \E i \in At({"join"}) : log[i] = Ev("join", w, JoinedAlready)

\* C24: a span collector is in the registry as a required worker; its loop
\* ends only at the loop condition with the stop request seen, or in the
\* receive with an error that is no timeout; a collector that was asked to stop
\* ends; and when a collector has ended while keepalive() waits, keepalive()
\* gets to its sweep with a stop request sent to every worker left.
C24_Collector ==
    /\ [](\A w \in Workers :
            wstate[w] \in Collecting => ThreadMeta(w, TRUE) \in Range(threads))
    /\ [][\A w \in Workers :
            (wstate[w] \in Collecting /\ wstate'[w] \notin Collecting) =>
                /\ wstate'[w] = "exited"
                /\ \/ wstate[w] = "z_check" /\ shutdown_flag[w]
                   \/ wstate[w] = "z_recv"]_vars
    /\ \A w \in Workers :
         (wstate[w] \in Collecting /\ shutdown_flag[w]) ~> wstate[w] = "exited"
    /\ (pc = "wait" /\ \E i \in DOMAIN threads :
                          threads[i].required /\ wstate[threads[i].handle] = "exited")
         ~> (pc = "join" /\ EventIds(log, "stop") = HandleSeq(WaitRegistry))

\* C24 witness: a collector left its loop on a receive error, never asked to
\* stop; keepalive() joined it in the wait loop, asked a running optional
\* worker to stop and returned.
C24_Witness ==
    /\ pc = "returned" /\ trigger = "exit"
    /\ LET w == log[LastWaitJoin].id IN
         /\ RequiredAtCall(w)
         /\ log[1] = Ev("wait_join", w, JoinOk)
         /\ \E v \in Handles(at_call) :
              /\ v # w
              /\ \E i \in At({"stop"}) : log[i].id = v
              /\ \E i \in At({"join"}) : log[i] = Ev("join", v, JoinOk)

\* C25 as stated: the first iteration of the wait loop of a keepalive() that
\* finds a notification queued leaves the loop through the signal branch.
C25_SignalBranchAtOnce ==
    [][(WaitIteration /\ log = <<>> /\ signal_receiver > 0)
          => (pc' = "shutdown" /\ trigger' = "signal")]_vars

\* C25 amended: while a notification is queued the wait of keepalive() never
\* blocks. An iteration that finds it queued takes the signal branch, or joins
\* a worker that has ended; when no worker of the registry has ended it takes
\* the signal branch. The notification stays queued through it.
C25_SignalNotLost ==
    /\ [](signal_receiver > 0 => ~Blocked)
    /\ [][(WaitIteration /\ signal_receiver > 0) =>
            /\ signal_receiver' = signal_receiver
            /\ \/ pc' = "shutdown" /\ trigger' = "signal" /\ log' = log
               \/ /\ SomeEnded
                  /\ \E i \in DOMAIN threads :
                       /\ wstate[threads[i].handle] \in Ended
                       /\ \E jr \in {JoinOk, JoinPanic, JoinedAlready} :
                            log' = Append(log, Ev("wait_join", threads[i].handle, jr))]_vars

\* C25 witness: a signal was handled before keepalive() was called, with a
\* running worker registered; keepalive() left the wait by the signal branch
\* with no join and has asked the worker to stop.
C25_Witness ==
    /\ pc = "join" /\ trigger = "signal" /\ signal_receiver = 1
    /\ At({"wait_join"}) = {}
    /\ threads # <<>>
    /\ \A i \in DOMAIN threads : wstate[threads[i].handle] = "running"

\* C26: when keepalive() left its wait loop by the signal branch or on the
\* clean exit of a required worker and a worker of its registry has panicked,
\* the sweep joined that worker with a panic result and keepalive() returns
\* false; keepalive() returns true only if no worker of its registry panicked.
C26_PanicNotMasked ==
    pc = "returned" =>
        /\ result => PanickedAtCall = {}
        /\ trigger \in {"signal", "exit"} =>
             \A w \in PanickedAtCall :
                 /\ ~result
                 /\ \E i \in At({"join"}) : log[i] = Ev("join", w, JoinPanic)
                 /\ \A i \in At({"wait_join"}) : log[i].id # w

\* C26 witness: a required worker's clean exit ended the wait while another
\* worker had panicked; the sweep found the panic and keepalive() returned
\* false.
C26_Witness ==
    /\ pc = "returned" /\ trigger = "exit" /\ ~result
    /\ log[LastWaitJoin].res = JoinOk
    /\ \E i \in At({"join"}) : log[i].res = JoinPanic

\* C27: a register_signal() call of a live coordinator has returned Ok only
\* with the handlers of both SIGINT and SIGTERM installed.
C27_OkMeansInstalled ==
    (alive /\ signal_result = "Ok") => installed = Range(signals)

\* C28: no step takes a notification off the signal channel or resets the
\* one-shot flag; with a notification queued the signal source is ready in
\* every state, so in every later wait; and a handler invocation that starts
\* with the flag set terminates the process, also after keepalive() returned.
C28_SignalStep ==
    /\ signal_receiver' >= signal_receiver
    /\ signal_flag => signal_flag'
    /\ \A h \in Invocations :
         (signal_flag /\ hpc[h] = "idle" /\ hpc'[h] # "idle") => process' = "exit1"

C28_SignalStays ==
    /\ [][C28_SignalStep]_vars
    /\ [](signal_receiver > 0 => (signal_flag /\ 0 \in ready(select_set(threads))))

\* C28 witness: keepalive() returned after a signal, and a later signal has
\* terminated the process; the notification is still queued.
C28_Witness ==
    /\ process = "exit1" /\ pc = "returned" /\ trigger = "signal"
    /\ signal_receiver = 1

\* C29: a step that lengthens the callback list or the registry appends one
\* entry, leaves the entries that were there, the other list and the signal
\* state unchanged; register_thread appends a required entry and
\* register_thread_optional an optional one.
C29_AppendStep ==
    /\ Len(callbacks') > Len(callbacks) =>
         /\ \E c \in CallbackIds : callbacks' = Append(callbacks, c)
         /\ UNCHANGED <<threads, signal_state>>
    /\ Len(threads') > Len(threads) =>
         /\ \E w \in Workers, required \in BOOLEAN :
              threads' = Append(threads, ThreadMeta(w, required))
         /\ UNCHANGED <<callbacks, signal_state>>
    /\ register_thread => threads'[Len(threads')].required
    /\ register_thread_optional => ~threads'[Len(threads')].required

C29_AppendOnly == [][C29_AppendStep]_vars

\* C29 witness: two callbacks, a required and then an optional thread were
\* registered after the signal handlers were installed.
C29_Witness ==
    /\ callbacks = <<1, 2>>
    /\ threads = <<ThreadMeta(1, TRUE), ThreadMeta(2, FALSE)>>
    /\ installed = Range(signals)
    /\ kcalls = 0 /\ scalls = 0

====
